---------------------------- MODULE Spec2Model ----------------------------
(***************************************************************************)
(* Model of the Gurmukhi-to-romanised transliteration engine               *)
(* gurbani_unicode_to_romanised (src/src/_cmn.py).                         *)
(*                                                                         *)
(* Characters are one-character strings; a Python string is a sequence of  *)
(* characters and a phonetic fragment is a sequence of characters too, so  *)
(* the fragment "kh" is <<"k", "h">> and the empty fragment is <<>>.       *)
(* Characters the TLA+ lexer does not accept inside a string are written   *)
(* by their code point: "U+0060" is the backtick, "U+005C" the backslash,  *)
(* "U+00B5" the micro sign, "U+1E45" n with dot above, "U+1E49" n with     *)
(* line below, "U+1E59" r with dot above, "U+1E37" l with dot below, and   *)
(* "U+1E44", "U+1E48", "U+1E58", "U+1E36" their upper-case forms.          *)
(***************************************************************************)
EXTENDS Integers, Sequences, FiniteSets, TLC

VARIABLES
    unicode,    \* the argument of the call in progress
    i,          \* index (zero-based) of the next character the loop takes
    romanised,  \* the list of fragments built so far
    buf,        \* the buffered sihaari fragment ("" when none)
    adhak,      \* the pending gemination flag
    pc,         \* "scan" inside the loop, "done" after return, "failed" after a raise
    outcome,    \* what the call gave its caller
    memo,       \* outcomes of earlier calls a caller chose to remember
    frames,     \* the locals of each of several calls running at the same time
    ctx,        \* the option flags the command line gave the composer
    ardaas,     \* the composer's text (_generate's local of that name)
    stdout,     \* the texts printed so far
    stderr,     \* the exceptions logged so far
    calls,      \* the arguments the composer called the engine with
    cpc,        \* where the run of main and the composer is
    rc,         \* main's return code
    exception,  \* main's local of that name ("" for None)
    database,   \* the entries of each monthly file of the hukamnama database
    web,        \* what the archive site serves for each date
    today,      \* _today_date, as a day number (2002-01-01 is day 1)
    update,     \* ctx.update of the data-update run in progress
    hpc,        \* where the data-update run is
    date,       \* the date the loop of _update_database takes next
    most_recent,\* _update_database's local of that name (0 for None)
    processed,  \* the dates the loop of this run has taken
    fetched,    \* the dates whose page this run has loaded
    today_hukam,\* the cache of _get_today_hukam
    runs        \* how many data-update runs have started

\* The hukamnama database and the run that updates it.
archive ==
    <<database, web, today, update, hpc, date, most_recent, processed,
      fetched, today_hukam, runs>>

\* What lies outside a single call of the engine.
outside ==
    <<frames, ctx, ardaas, stdout, stderr, calls, cpc, rc, exception, archive>>

vars == <<unicode, i, romanised, buf, adhak, pc, outcome, memo, outside>>

---------------------------------------------------------------------------
(* Bounds of the model. *)

\* Longest input string of a single call.
MaxLen == 4
\* Number of symbols of SymbolOrder the inputs are drawn from.
NumSymbols == 12
\* Longest string of punctuation marks (specification SpecPunct).
MaxPunctLen == 4
\* Longest input and number of symbols when calls follow one another
\* (specification SpecCalls).
MaxCallLen == 2
NumCallSymbols == 6
\* Longest input and number of symbols when calls run at the same time
\* (specification SpecConc).
MaxConcLen == 2
NumConcSymbols == 5

---------------------------------------------------------------------------
(* The mapping tables, src/src/_cmn.py:174-264. *)

grammar_mapping ==
    (" " :> <<" ">>) @@ ("[" :> <<".">>) @@ ("]" :> <<".">>) @@
    ("." :> <<".">>) @@ ("," :> <<",">>)

oora_aera_eeri_mapping ==
    ("a" :> <<>>) @@ ("A" :> <<"a">>) @@ ("e" :> <<>>)

\* The key "@@@" is written twice in the dict literal (lines 225 and 227):
\* the dict keeps one entry for it. It is a three-character key, so no
\* single character of an input equals it.
consonant_mapping ==
    ("s" :> <<"s">>) @@ ("h" :> <<"h">>) @@ ("k" :> <<"k">>) @@
    ("K" :> <<"k","h">>) @@ ("g" :> <<"g">>) @@ ("G" :> <<"g","h">>) @@
    ("|" :> <<"n","g">>) @@ ("c" :> <<"c","h">>) @@
    ("C" :> <<"c","h","h">>) @@ ("j" :> <<"j">>) @@ ("J" :> <<"j","h">>) @@
    ("U+005C" :> <<"n","j">>) @@ ("t" :> <<"t","t">>) @@
    ("T" :> <<"t","t","h">>) @@ ("f" :> <<"d","d">>) @@
    ("F" :> <<"d","d","h">>) @@ ("x" :> <<"U+1E49">>) @@ ("q" :> <<"t">>) @@
    ("Q" :> <<"t","h">>) @@ ("d" :> <<"d">>) @@ ("D" :> <<"d","h">>) @@
    ("n" :> <<"n">>) @@ ("p" :> <<"p">>) @@ ("P" :> <<"p","h">>) @@
    ("b" :> <<"b">>) @@ ("B" :> <<"b","h">>) @@ ("m" :> <<"m">>) @@
    ("X" :> <<"y">>) @@ ("r" :> <<"r">>) @@ ("l" :> <<"l">>) @@
    ("v" :> <<"v">>) @@ ("V" :> <<"U+1E59">>) @@ ("S" :> <<"s","h">>) @@
    ("Z" :> <<"g","h","h">>) @@ ("@@@" :> <<>>) @@ ("z" :> <<"z">>) @@
    ("L" :> <<"U+1E37">>)

\* The pairee haha keyed by the letter of the full haha.
pairee_mapping_lower_h ==
    ("h" :> <<"h">>) @@ ("R" :> <<"r">>)

pairee_mapping ==
    ("H" :> <<"h">>) @@ ("R" :> <<"r">>)

vowel_mapping ==
    ("w" :> <<"a","a">>) @@ ("W" :> <<"a","a","U+1E45">>) @@
    ("i" :> <<"i">>) @@ ("I" :> <<"e","e">>) @@ ("u" :> <<"u">>) @@
    ("U" :> <<"o","o">>) @@ ("o" :> <<"o">>) @@ ("O" :> <<"o","u">>) @@
    ("y" :> <<"a","e">>) @@ ("Y" :> <<"a","i">>)

semi_vowel_mapping ==
    ("N" :> <<"U+1E45">>) @@ ("M" :> <<"U+1E45">>) @@ ("U+00B5" :> <<"U+1E45">>)

\* _LetterType.ADHAK is an enum member, not a string.
ADHAK == [letter_type |-> "adhak"]

special_mapping ==
    ("~" :> ADHAK) @@ ("U+0060" :> ADHAK)

\* dict.update: the entries of the second argument replace those of the first.
Update(d, e) == [k \in DOMAIN d \cup DOMAIN e |-> IF k \in DOMAIN e THEN e[k] ELSE d[k]]

mapping ==
    Update(Update(Update(Update(Update(Update(grammar_mapping,
        oora_aera_eeri_mapping), consonant_mapping), pairee_mapping),
        vowel_mapping), semi_vowel_mapping), special_mapping)

Values(d) == {d[k] : k \in DOMAIN d}

---------------------------------------------------------------------------
(* str.upper, str.lower, substring test and join on fragments. *)

UpperPairs ==
    {<<"a","A">>, <<"b","B">>, <<"c","C">>, <<"d","D">>, <<"e","E">>,
     <<"g","G">>, <<"h","H">>, <<"i","I">>, <<"j","J">>, <<"k","K">>,
     <<"l","L">>, <<"m","M">>, <<"n","N">>, <<"o","O">>, <<"p","P">>,
     <<"r","R">>, <<"s","S">>, <<"t","T">>, <<"u","U">>, <<"v","V">>,
     <<"y","Y">>, <<"z","Z">>, <<"U+1E45","U+1E44">>, <<"U+1E49","U+1E48">>,
     <<"U+1E59","U+1E58">>, <<"U+1E37","U+1E36">>}

UpperChar(c) ==
    IF \E p \in UpperPairs : p[1] = c
    THEN (CHOOSE p \in UpperPairs : p[1] = c)[2]
    ELSE c

LowerChar(c) ==
    IF \E p \in UpperPairs : p[2] = c
    THEN (CHOOSE p \in UpperPairs : p[2] = c)[1]
    ELSE c

Upper(s) == [j \in 1..Len(s) |-> UpperChar(s[j])]

Lower(s) == [j \in 1..Len(s) |-> LowerChar(s[j])]

\* Python's `sub in s` on strings.
Contains(s, sub) ==
    \E j \in 1..(Len(s) - Len(sub) + 1) : SubSeq(s, j, j + Len(sub) - 1) = sub

\* "".join(frags), by halves so that long lists stay shallow.
RECURSIVE Join(_)
Join(frags) ==
    IF frags = <<>> THEN <<>>
    ELSE IF Len(frags) = 1 THEN frags[1]
    ELSE LET h == Len(frags) \div 2
         IN Join(SubSeq(frags, 1, h)) \o Join(SubSeq(frags, h + 1, Len(frags)))

\* Python indexing with a zero-based, possibly negative index k.
PyIndex(s, k) == IF k >= 0 THEN s[k + 1] ELSE s[Len(s) + k + 1]

\* list[:-n]
DropLast(s, n) == SubSeq(s, 1, Len(s) - n)

Last(s) == s[Len(s)]

SetLast(s, x) == [s EXCEPT ![Len(s)] = x]

---------------------------------------------------------------------------
(* The body of the loop, src/src/_cmn.py:270-321, as operators on values. *)

\* Bracket with the test for the sihaari two characters back left out.
BracketNoSihaariTest(rom, u, idx, ch) ==
    IF /\ rom # <<>>
       /\ ch = " "
       /\ Len(u) > 2
       /\ \/ PyIndex(u, idx - 1) # "e"
          \/ PyIndex(u, idx - 1) = "u" /\ PyIndex(u, idx - 2) # "a"
    THEN DropLast(rom, 1) \o << <<"(">> \o Last(rom) \o <<")">> >>
    ELSE rom

\* Bracket looking one character back instead of two.
BracketOneBack(rom, u, idx, ch) ==
    IF /\ rom # <<>>
       /\ ch = " "
       /\ Len(u) > 2
       /\ \/ PyIndex(u, idx - 1) = "i"
          \/ PyIndex(u, idx - 1) = "u" /\ PyIndex(u, idx - 2) # "a"
    THEN DropLast(rom, 1) \o << <<"(">> \o Last(rom) \o <<")">> >>
    ELSE rom

\* Lines 280-287: on a space, with some output already, wrap the last
\* fragment in brackets when the two source characters before the space
\* say so. unicode[i - 2] is Python indexing: at i = 1 it is unicode[-1].
Bracket(rom, u, idx, ch) ==
    IF /\ rom # <<>>
       /\ ch = " "
       /\ Len(u) > 2
       /\ \/ PyIndex(u, idx - 2) = "i" /\ PyIndex(u, idx - 1) # "e"
          \/ PyIndex(u, idx - 1) = "u" /\ PyIndex(u, idx - 2) # "a"
    THEN DropLast(rom, 1) \o << <<"(">> \o Last(rom) \o <<")">> >>
    ELSE rom

\* Lines 291-294, reached with a non-empty list.
PaireeSplice(rom, mapped_char) ==
    IF Last(rom) = <<"i">>
    THEN DropLast(rom, 2) \o <<mapped_char, Last(rom)>>
    ELSE Append(rom, mapped_char)

\* Mukta that never touches the last fragment.
MuktaNever(rom, ch, mapped_char) == rom

\* Lines 296-313: drop a stray "a" before a long "aa", or add the mukta
\* sound to the last fragment.
Mukta(rom, ch, mapped_char) ==
    IF rom # <<>> /\ Lower(Last(rom)) = <<"a">> /\ Contains(mapped_char, <<"a","a">>)
    THEN SetLast(rom, <<>>)
    ELSE IF /\ rom # <<>>
            /\ \/ /\ Lower(Last(rom)) \in Values(consonant_mapping)
                  /\ ch \in DOMAIN oora_aera_eeri_mapping
                            \cup DOMAIN consonant_mapping
                            \cup DOMAIN pairee_mapping
               \/ /\ Lower(Last(rom)) \in Values(oora_aera_eeri_mapping)
                  /\ ch \in DOMAIN vowel_mapping
         THEN SetLast(rom, Last(rom) \o <<"a">>)
         ELSE rom

\* Emit that upper-cases nothing.
EmitLowerOnly(rom, mapped_char, ad) ==
    IF mapped_char # <<>> THEN Append(rom, mapped_char) ELSE rom

\* Lines 314-318: the fragment appended for a non-empty mapped_char.
Emit(rom, mapped_char, ad) ==
    IF mapped_char # <<>>
    THEN Append(rom, IF ad THEN Upper(mapped_char) ELSE mapped_char)
    ELSE rom

\* Lines 315-317: the flag after the emission.
AdhakAfterEmit(mapped_char, ad) == IF mapped_char # <<>> THEN FALSE ELSE ad

\* Flush that puts the buffered vowel in front of the last fragment.
FlushBeforeLast(rom, bf) ==
    IF bf # <<>> /\ rom # <<>>
    THEN DropLast(rom, 1) \o <<bf, Last(rom)>>
    ELSE IF bf # <<>> THEN Append(rom, bf) ELSE rom

\* Lines 319-321.
Flush(rom, bf) == IF bf # <<>> THEN Append(rom, bf) ELSE rom

\* Locals kept between calls: the pending state is not reset.
InitialLocalsStale(prev) ==
    [romanised |-> <<>>, buf |-> prev.buf, adhak |-> prev.adhak]

\* Lines 266-268: the locals a call starts with. prev is whatever an
\* earlier call left behind; the code reads none of it.
InitialLocals(prev) == [romanised |-> <<>>, buf |-> <<>>, adhak |-> FALSE]

---------------------------------------------------------------------------
(* Inputs. *)

\* "?" stands for any character outside every table; "@" is such a
\* character too (the tables only hold the three-character key "@@@").
SymbolOrder ==
    <<"k", "i", "H", "~", " ", "?", "w", "n", "A", "a", "u", "e",
      "[", "N", "]", ",", "@", "R", "U+0060", "W", "M", "U+00B5", ".",
      "h", "r", "K", "I", "U", "o", "O", "y", "Y", "s", "g", "G", "|",
      "c", "C", "j", "J", "U+005C", "t", "T", "f", "F", "x", "q", "Q",
      "d", "D", "p", "P", "b", "B", "m", "X", "l", "v", "V", "S", "Z",
      "z", "L">>

Alphabet == {SymbolOrder[j] : j \in 1..NumSymbols}

Strings(S, n) == UNION {[1..m -> S] : m \in 0..n}

Inputs == Strings(Alphabet, MaxLen)

NoOutcome == [kind |-> "none"]
Returned(s) == [kind |-> "return", value |-> s]
\* KeyError(char): the exception carries the missing key and nothing else.
KeyError(ch) == [kind |-> "raise", type |-> "KeyError", args |-> <<ch>>]
\* IndexError of romanised[-1] on an empty list.
IndexError == [kind |-> "raise", type |-> "IndexError",
               args |-> <<"list index out of range">>]

---------------------------------------------------------------------------
(* One call: the state after lines 257-268, then one action per path     *)
(* through the loop body, then the return of line 323.                   *)

\* No run of main and the composer is in progress.
NoComposer ==
    /\ ctx = <<>>
    /\ ardaas = <<>>
    /\ stdout = <<>>
    /\ stderr = <<>>
    /\ calls = <<>>
    /\ cpc = "none"
    /\ rc = ""
    /\ exception = ""

\* No data-update run is in progress and there is no database.
NoArchive ==
    /\ database = <<>>
    /\ web = <<>>
    /\ today = 0
    /\ update = "none"
    /\ hpc = "none"
    /\ date = 0
    /\ most_recent = 0
    /\ processed = <<>>
    /\ fetched = <<>>
    /\ today_hukam = "none"
    /\ runs = 0

\* No composer runs and no other call is in progress.
NoRun == frames = <<>> /\ NoComposer /\ NoArchive

\* Before the first call of a process nothing is left behind.
NoLocals == [romanised |-> <<>>, buf |-> <<>>, adhak |-> FALSE]

Entry(u, prev) ==
    /\ unicode = u
    /\ i = 0
    /\ romanised = InitialLocals(prev).romanised
    /\ buf = InitialLocals(prev).buf
    /\ adhak = InitialLocals(prev).adhak

Init ==
    /\ \E u \in Inputs : Entry(u, NoLocals)
    /\ pc = "scan"
    /\ outcome = NoOutcome
    /\ memo = {}
    /\ NoRun

Scanning == pc = "scan" /\ i < Len(unicode)

char == unicode[i + 1]

\* Line 271: mapping[char] raises KeyError for a character in no table.
Unrecognised ==
    /\ Scanning
    /\ char \notin DOMAIN mapping
    /\ pc' = "failed"
    /\ outcome' = KeyError(char)
    /\ UNCHANGED <<unicode, i, romanised, buf, adhak, memo>>
    /\ UNCHANGED outside

\* Lines 272-276.
AdhakStep ==
    /\ Scanning
    /\ char \in DOMAIN mapping
    /\ char \in DOMAIN special_mapping /\ special_mapping[char] = ADHAK
    /\ adhak' = TRUE
    /\ i' = i + 1
    /\ UNCHANGED <<unicode, romanised, buf, pc, outcome, memo>>
    /\ UNCHANGED outside

\* Lines 288-289 (the test of line 280 is false: char is not a space).
SihaariStep ==
    /\ Scanning
    /\ char = "i"
    /\ buf' = mapping[char]
    /\ i' = i + 1
    /\ UNCHANGED <<unicode, romanised, adhak, pc, outcome, memo>>
    /\ UNCHANGED outside

\* Lines 290-294 with some output to look back at.
PaireeStep ==
    /\ Scanning
    /\ char \in DOMAIN pairee_mapping
    /\ romanised # <<>>
    /\ romanised' = PaireeSplice(romanised, mapping[char])
    /\ i' = i + 1
    /\ UNCHANGED <<unicode, buf, adhak, pc, outcome, memo>>
    /\ UNCHANGED outside

\* Line 291 with an empty list: romanised[-1] raises IndexError.
PaireeIndexError ==
    /\ Scanning
    /\ char \in DOMAIN pairee_mapping
    /\ romanised = <<>>
    /\ pc' = "failed"
    /\ outcome' = IndexError
    /\ UNCHANGED <<unicode, i, romanised, buf, adhak, memo>>
    /\ UNCHANGED outside

\* Lines 280-287 and 295-321: every other character.
OtherStep ==
    /\ Scanning
    /\ char \in DOMAIN mapping
    /\ char \notin DOMAIN special_mapping
    /\ char # "i"
    /\ char \notin DOMAIN pairee_mapping
    /\ LET mapped_char == mapping[char]
           bracketed == Bracket(romanised, unicode, i, char)
           withMukta == Mukta(bracketed, char, mapped_char)
           emitted == Emit(withMukta, mapped_char, adhak)
       IN /\ romanised' = Flush(emitted, buf)
          /\ adhak' = AdhakAfterEmit(mapped_char, adhak)
          /\ buf' = <<>>
    /\ i' = i + 1
    /\ UNCHANGED <<unicode, pc, outcome, memo>>
    /\ UNCHANGED outside

\* Line 323.
Return ==
    /\ pc = "scan"
    /\ i = Len(unicode)
    /\ pc' = "done"
    /\ outcome' = Returned(Join(romanised))
    /\ UNCHANGED <<unicode, i, romanised, buf, adhak, memo>>
    /\ UNCHANGED outside

Next ==
    \/ Unrecognised
    \/ AdhakStep
    \/ SihaariStep
    \/ PaireeStep
    \/ PaireeIndexError
    \/ OtherStep
    \/ Return

Spec == Init /\ [][Next]_vars

---------------------------------------------------------------------------
(* Calls on strings of punctuation marks only. Such a string takes the   *)
(* loop through lines 280-287 and 295-321 alone.                         *)

PunctInputs == Strings({" ", "[", "]", ","}, MaxPunctLen)

InitPunct ==
    /\ \E u \in PunctInputs : Entry(u, NoLocals)
    /\ pc = "scan"
    /\ outcome = NoOutcome
    /\ memo = {}
    /\ NoRun

NextPunct == OtherStep \/ Return

SpecPunct == InitPunct /\ [][NextPunct]_vars

---------------------------------------------------------------------------
(* Calls one after another in one process. The caller may keep the input *)
(* and outcome of one finished call to compare later outcomes with.      *)

CallAlphabet == {SymbolOrder[j] : j \in 1..NumCallSymbols}

CallInputs == Strings(CallAlphabet, MaxCallLen)

InitCalls ==
    /\ \E u \in CallInputs : Entry(u, NoLocals)
    /\ pc = "scan"
    /\ outcome = NoOutcome
    /\ memo = {}
    /\ NoRun

\* A finished call (returned or raised) is followed by the next call:
\* lines 257-268 run again.
NewCall ==
    /\ pc \in {"done", "failed"}
    /\ \E u \in CallInputs :
          LET prev == [romanised |-> romanised, buf |-> buf, adhak |-> adhak]
          IN /\ unicode' = u
             /\ i' = 0
             /\ romanised' = InitialLocals(prev).romanised
             /\ buf' = InitialLocals(prev).buf
             /\ adhak' = InitialLocals(prev).adhak
    /\ pc' = "scan"
    /\ outcome' = NoOutcome
    /\ \/ UNCHANGED memo
       \/ memo = {} /\ memo' = {[input |-> unicode, outcome |-> outcome]}
    /\ UNCHANGED outside

NextCalls == Next \/ NewCall

SpecCalls == InitCalls /\ [][NextCalls]_vars

---------------------------------------------------------------------------
(* Vocabulary of the properties. Indices into unicode are one-based      *)
(* here: in a state with index i the characters unicode[1..i] have been  *)
(* taken by the loop; when the call failed, the character that raised   *)
(* is unicode[i + 1].                                                    *)

Finished == pc \in {"done", "failed"}

IsConsonant(c) == c \in DOMAIN consonant_mapping

EndsWith(s, t) == Len(s) >= Len(t) /\ SubSeq(s, Len(s) - Len(t) + 1, Len(s)) = t

\* A fragment as emitted, with or without the gemination upper-case.
IsFragmentOf(frag, c) == frag \in {mapping[c], Upper(mapping[c])}

\* Read off the source alone: is a sihaari waiting when the loop reaches
\* the character after unicode[1..j]? A sihaari waits until the next
\* character that is neither a pairee, a gemination mark nor a sihaari.
RECURSIVE SihaariWaiting(_, _)
SihaariWaiting(u, j) ==
    IF j = 0 THEN FALSE
    ELSE IF u[j] = "i" THEN TRUE
    ELSE IF u[j] \in DOMAIN pairee_mapping \cup DOMAIN special_mapping
         THEN SihaariWaiting(u, j - 1)
    ELSE FALSE

Known(u) == \A j \in 1..Len(u) : u[j] \in DOMAIN mapping

\* One-based position of the first character of u outside every table.
FirstUnknown(u) ==
    CHOOSE j \in 1..Len(u) :
        /\ u[j] \notin DOMAIN mapping
        /\ \A m \in 1..(j - 1) : u[m] \in DOMAIN mapping

---------------------------------------------------------------------------
(* C1..C10 *)

\* C1. Sihaari postponement: once the loop has taken a sihaari and the
\* consonant right after it, the last two fragments are the consonant's
\* fragment and then "i"; and the call on "ik" returns "ki".
C1_SihaariPostponed ==
    /\ (/\ i >= 2
        /\ unicode[i - 1] = "i"
        /\ IsConsonant(unicode[i]))
       => /\ Len(romanised) >= 2
          /\ IsFragmentOf(romanised[Len(romanised) - 1], unicode[i])
          /\ Last(romanised) = <<"i">>
    /\ (unicode = <<"i", "k">> /\ Finished) => outcome = Returned(<<"k", "i">>)

C1_Witness ==
    /\ unicode = <<"i", "k">>
    /\ pc = "done"
    /\ outcome = Returned(<<"k", "i">>)

\* C2 as stated: for ANY two adjacent consonants, once both are taken the
\* fragment before the last is the first consonant's fragment followed by
\* "a", and the last fragment is the second consonant's.
C2_Original ==
    (/\ i >= 2
     /\ IsConsonant(unicode[i - 1])
     /\ IsConsonant(unicode[i]))
    => /\ Len(romanised) >= 2
       /\ \E f \in {mapping[unicode[i - 1]], Upper(mapping[unicode[i - 1]])} :
             romanised[Len(romanised) - 1] = f \o <<"a">>
       /\ IsFragmentOf(Last(romanised), unicode[i])

\* C2 as amended: the same for two adjacent consonants the first of which
\* has no sihaari waiting for it; and the call on "kn" returns "kan".
C2_MuktaBetweenConsonants ==
    /\ (/\ i >= 2
        /\ IsConsonant(unicode[i - 1])
        /\ IsConsonant(unicode[i])
        /\ ~SihaariWaiting(unicode, i - 2))
       => /\ Len(romanised) >= 2
          /\ \E f \in {mapping[unicode[i - 1]], Upper(mapping[unicode[i - 1]])} :
                romanised[Len(romanised) - 1] = f \o <<"a">>
          /\ IsFragmentOf(Last(romanised), unicode[i])
    /\ (unicode = <<"k", "n">> /\ Finished)
       => outcome = Returned(<<"k", "a", "n">>)

C2_Witness ==
    /\ unicode = <<"k", "n">>
    /\ pc = "done"
    /\ romanised = << <<"k", "a">>, <<"n">> >>

\* C3 as stated: the call on "k~w" returns "Kaa".
C3_Original ==
    (unicode = <<"k", "~", "w">> /\ Finished)
    => outcome = Returned(<<"K", "a", "a">>)

\* C3 as amended: the call on "k~w" returns "kAA": the fragment emitted
\* after the mark, the vowel sign's "aa", is the one upper-cased.
C3_GeminationExample ==
    (unicode = <<"k", "~", "w">> /\ Finished)
    => outcome = Returned(<<"k", "A", "A">>)

C3_Witness ==
    /\ unicode = <<"k", "~", "w">>
    /\ pc = "done"
    /\ romanised = << <<"k">>, <<"A", "A">> >>

\* C4. The call on "iH" (sihaari, pairee haha) returns "hi".
C4_PaireeExample ==
    (unicode = <<"i", "H">> /\ Finished) => outcome = Returned(<<"h", "i">>)

\* C5 as stated: every input ending with sihaari and a space that is
\* transliterated gives a result ending with "(i) ".
C5_Original ==
    (/\ pc = "done"
     /\ EndsWith(unicode, <<"i", " ">>))
    => EndsWith(outcome.value, <<"(", "i", ")", " ">>)

\* C5 as amended: every input ending with sihaari, a consonant and a
\* space (the sihaari is written before the consonant it is spoken after)
\* that is transliterated gives a result ending with "(i) ".
C5_BracketedSihaari ==
    (/\ pc = "done"
     /\ Len(unicode) >= 3
     /\ unicode[Len(unicode) - 2] = "i"
     /\ IsConsonant(unicode[Len(unicode) - 1])
     /\ unicode[Len(unicode)] = " ")
    => EndsWith(outcome.value, <<"(", "i", ")", " ">>)

C5_Witness ==
    /\ unicode = <<"n", "i", "k", " ">>
    /\ pc = "done"
    /\ outcome = Returned(<<"n", "a", "k", "(", "i", ")", " ">>)

\* C6. Every call on an input with a character outside the tables fails
\* with an error that carries the first such character and its
\* zero-based index, and returns no string.
C6_UnknownSymbol ==
    (~Known(unicode) /\ Finished)
    => /\ pc = "failed"
       /\ outcome.kind = "raise"
       /\ outcome.type = "KeyError"
       /\ Len(outcome.args) = 2
       /\ outcome.args[1] = unicode[FirstUnknown(unicode)]
       /\ outcome.args[2] = FirstUnknown(unicode) - 1

\* C7. A call on an input whose characters all belong to the tables
\* never fails.
C7_Total == Known(unicode) => pc # "failed"

\* C8. On a string of spaces, "[", "]" and "," the call returns the
\* character-by-character image (space to space, "[" and "]" to ".",
\* "," to ","), of the same length, and does not fail.
C8_PunctuationClosure ==
    /\ pc # "failed"
    /\ pc = "done"
       => /\ outcome.kind = "return"
          /\ Len(outcome.value) = Len(unicode)
          /\ \A j \in 1..Len(unicode) :
                outcome.value[j] =
                    CASE unicode[j] = " " -> " "
                      [] unicode[j] = "[" -> "."
                      [] unicode[j] = "]" -> "."
                      [] unicode[j] = "," -> ","

C8_Witness ==
    /\ unicode = <<"]", ",", " ", "[">>
    /\ pc = "done"
    /\ outcome = Returned(<<".", ",", " ", ".">>)

\* C9. The key sets of the seven tables are pairwise disjoint, every key
\* of the merged mapping is in exactly one of them, the merged mapping
\* holds each table's own entry, and so does the lookup of the character
\* the loop is at.
Tables ==
    <<grammar_mapping, oora_aera_eeri_mapping, consonant_mapping,
      pairee_mapping, vowel_mapping, semi_vowel_mapping, special_mapping>>

\* The part of C9 that speaks of the tables alone.
TablesExclusive ==
    /\ \A a, b \in 1..Len(Tables) :
          a # b => DOMAIN Tables[a] \cap DOMAIN Tables[b] = {}
    /\ \A k \in DOMAIN mapping :
          Cardinality({a \in 1..Len(Tables) : k \in DOMAIN Tables[a]}) = 1
    /\ \A a \in 1..Len(Tables) :
          \A k \in DOMAIN Tables[a] : mapping[k] = Tables[a][k]

C9_ExclusiveClasses ==
    /\ TablesExclusive
    /\ (Scanning /\ char \in DOMAIN mapping)
       => \A a \in 1..Len(Tables) :
             char \in DOMAIN Tables[a] => mapping[char] = Tables[a][char]

C9_Witness ==
    /\ Scanning
    /\ char = "H"
    /\ mapping[char] = <<"h">>
    /\ unicode[1] = "k"

\* C10. A call gives the outcome a remembered earlier call on the same
\* input gave, whatever calls came in between; every call starts with an
\* empty output list, an empty vowel buffer and the flag down.
C10_Deterministic ==
    /\ \A m \in memo : (Finished /\ unicode = m.input) => outcome = m.outcome
    /\ (pc = "scan" /\ i = 0) => (romanised = <<>> /\ buf = <<>> /\ ~adhak)

C10_Witness ==
    /\ pc = "done"
    /\ unicode = <<"~", "k">>
    /\ memo = {[input |-> <<"~", "k">>, outcome |-> Returned(<<"K">>)]}

---------------------------------------------------------------------------
(* Several calls at the same time, one per caller (thread). Every call   *)
(* has its own frame of locals; a step of a caller is one pass through   *)
(* the loop body, or the return, on its frame.                           *)

Callers == {"c1", "c2"}

NewFrame(u) ==
    [unicode |-> u, i |-> 0,
     romanised |-> InitialLocals(NoLocals).romanised,
     buf |-> InitialLocals(NoLocals).buf,
     adhak |-> InitialLocals(NoLocals).adhak,
     pc |-> "scan", outcome |-> NoOutcome]

\* Lines 270-323 on the frame f of a call that has not finished: the
\* same paths as the actions Unrecognised .. Return.
Iteration(f) ==
    IF f.i = Len(f.unicode)
    THEN [f EXCEPT !.pc = "done", !.outcome = Returned(Join(f.romanised))]
    ELSE LET ch == f.unicode[f.i + 1] IN
         IF ch \notin DOMAIN mapping
         THEN [f EXCEPT !.pc = "failed", !.outcome = KeyError(ch)]
         ELSE IF ch \in DOMAIN special_mapping /\ special_mapping[ch] = ADHAK
         THEN [f EXCEPT !.adhak = TRUE, !.i = f.i + 1]
         ELSE IF ch = "i"
         THEN [f EXCEPT !.buf = mapping[ch], !.i = f.i + 1]
         ELSE IF ch \in DOMAIN pairee_mapping
         THEN IF f.romanised = <<>>
              THEN [f EXCEPT !.pc = "failed", !.outcome = IndexError]
              ELSE [f EXCEPT !.romanised = PaireeSplice(f.romanised, mapping[ch]),
                             !.i = f.i + 1]
         ELSE LET mapped_char == mapping[ch]
                  bracketed == Bracket(f.romanised, f.unicode, f.i, ch)
                  withMukta == Mukta(bracketed, ch, mapped_char)
                  emitted == Emit(withMukta, mapped_char, f.adhak)
              IN [f EXCEPT !.romanised = Flush(emitted, f.buf),
                           !.adhak = AdhakAfterEmit(mapped_char, f.adhak),
                           !.buf = <<>>,
                           !.i = f.i + 1]

\* The pending flag kept in one place for all callers.
LocalsSharedAdhak(fs, t) ==
    [fs[t] EXCEPT !.adhak = \E s \in DOMAIN fs : fs[s].adhak]

\* Lines 266-268: romanised, buf and adhak are locals of the call; the
\* locals caller t works on are those of its own frame.
Locals(fs, t) == fs[t]

ConcAlphabet == {SymbolOrder[j] : j \in 1..NumConcSymbols}

ConcInputs == Strings(ConcAlphabet, MaxConcLen)

InitConc ==
    /\ frames \in [Callers -> {NewFrame(u) : u \in ConcInputs}]
    /\ Entry(<<>>, NoLocals)
    /\ pc = "none"
    /\ outcome = NoOutcome
    /\ memo = {}
    /\ NoComposer
    /\ NoArchive

CallerStep(t) ==
    /\ frames[t].pc = "scan"
    /\ frames' = [frames EXCEPT ![t] = Iteration(Locals(frames, t))]
    /\ UNCHANGED <<unicode, i, romanised, buf, adhak, pc, outcome, memo>>
    /\ UNCHANGED <<ctx, ardaas, stdout, stderr, calls, cpc, rc, exception>>
    /\ UNCHANGED archive

NextConc == \E t \in Callers : CallerStep(t)

SpecConc == InitConc /\ [][NextConc]_vars

\* A call run alone, from its first step to its outcome.
RECURSIVE RunAlone(_)
RunAlone(f) == IF f.pc = "scan" THEN RunAlone(Iteration(f)) ELSE f

Alone == [u \in ConcInputs |-> RunAlone(NewFrame(u)).outcome]

---------------------------------------------------------------------------
(* C11 *)

\* C11. Under every interleaving of the callers' steps, a call that has
\* finished has the outcome the same input has when it runs alone.
C11_ConcurrentCalls ==
    \A t \in Callers :
        frames[t].pc # "scan" => frames[t].outcome = Alone[frames[t].unicode]

C11_Witness ==
    /\ frames["c1"].unicode = <<"~", "k">>
    /\ frames["c1"].outcome = Returned(<<"K">>)
    /\ frames["c2"].unicode = <<"k">>
    /\ frames["c2"].outcome = Returned(<<"k">>)


---------------------------------------------------------------------------
(* The phrase composer, src/src/_ardaas.py, and the part of main that    *)
(* runs it, src/src/main.py:186-266. A line of the prayer is a sequence  *)
(* of characters and the functions below return lists of lines.          *)
(* "U+00C2" is the letter A with circumflex.                             *)

\* How many of the composer's options (in OptionOrder) a run may set.
NumOptions == 4

\* Lines 266-288. special_cases is empty.
_pluralise(word, plural) ==
    IF ~plural THEN word
    ELSE IF Last(word) = "y"
         THEN DropLast(word, 2) \o <<"i">> \o <<word[Len(word) - 1]>>
              \o <<"A", "W">>
         ELSE word \o <<"W">>

\* Lines 23-38.
_amrit_vela(add, multiple) ==
    IF ~add THEN <<>>
    ELSE <<
          _pluralise(<<"d", "w", "s">>, multiple)
          \o <<" ", "n", "U", "M", " ", "s", "i", "e", " ", "r", "i", "h",
            "q", " ", "A", "q", "y", " ", "p", "U", "r", "w", " ", "S",
            "r", "d", "w", " ", "b", "K", "S", "o", " ", "j", "I", "[",
            " ">>,
          <<"k", "l", " ", "s", "v", "y", "r", "y", " ", "n", "U", "M",
            ",", " ", "k", "l", " ", "A", "M", "i", "m", "R", "q", " ",
            "v", "y", "l", "y", " ", "i", "v", "~", "c", " ">>
          \o _pluralise(<<"d", "w", "s">>, multiple)
          \o <<" ", "n", "U", "M", " ", "A", "M", "i", "m", "R", "q", " ",
            "v", "y", "l", "w", " ", "i", "v", "~", "c", " ", "j", "g",
            "W", " ", "k", "y", " ", "a", "u", "T", "w", " ", "k", "y",
            " ", "g", "u", "r", "b", "w", "n", "I", " ", "p", "V", "w",
            "a", "u", "[", " ">>,
          _pluralise(<<"d", "w", "s">>, multiple)
          \o <<" ", "n", "U", "M", " ", "A", "M", "i", "m", "R", "q", " ",
            "v", "y", "l", "w", " ", "d", "I", " ", "d", "w", "n", " ",
            "b", "K", "S", "o", "[", " ">> >>

\* Lines 41-52.
_anand_sahib(add) ==
    IF ~add THEN <<>>
    ELSE <<
          <<"C", "y", " ", "p", "a", "u", "V", "I", " ", "A", "n", "M",
            "d", " ", "s", "w", "i", "h", "b", " ", "h", "o", "e", "y",
            "[", " ">> >>

\* Lines 66-67 (the backslash at the end of line 66 joins the two lines).
anik_prakar ==
    <<"A", "i", "n", "k", " ", "p", "R", "k", "w", "r", " ", "B", "o", "j",
      "n", " ", "b", "h", "u", " ", "k", "I", "e", "y", " ", "b", "h", "u",
      " ", "i", "b", "M", "j", "n", " ", "i", "m", "s", "t", "w", "e", "y",
      "]", " ", "k", "r", "I", " ", "p", "w", "k", "s", "w", "l", " ", "s",
      "o", "c", " ", "p", "i", "v", "q", "R", "w", " ", "h", "u", "i", "x",
      " ", "l", "w", "v", "h", "u", " ", "B", "o", "g", "u", " ", "h", "i",
      "r", " ", "r", "w", "e", "y", "]", " ">>

\* Lines 69-76.
degh(parshaad, langar) ==
    IF parshaad /\ langar THEN <<"k", "V", "w", "h", " ", "p", "R", "s", "w", "d", " ", "d", "I",
          " ", "d", "y", "G", " ", "A", "q", "y", " ", "l", "M", "g", "r">>
    ELSE IF parshaad THEN <<"k", "V", "w", "h", " ", "p", "R", "s", "w", "d", " ", "d", "I",
          " ", "d", "y", "G">>
    ELSE <<"l", "M", "g", "r">>

\* Lines 55-83.
_degh(parshaad, langar) ==
    IF ~(parshaad \/ langar) THEN <<>>
    ELSE <<
          degh(parshaad, langar) \o <<" ", "s", "w", "j", "k", "y", " ", "h", "w", "z", "r", " ",
            "h", "n", "[", " ">>,
          anik_prakar,
          <<"p", "r", "v", "w", "n", " ", "k", "I", "q", "w", " ">> \o degh(parshaad, langar)
          \o <<" ", "s", "w", "D", " ", "s", "M", "g", "q", " ", "d", "w",
            " ", "r", "s", "n", "w", " ", "d", "y", " ", "l", "w", "i",
            "e", "k", " ", "h", "o", "x", "[", " ">>,
          <<"j", "o", " ", "j", "I", " ", "C", "~", "k", "y", " ", "s",
            "o", " ", "q", "y", "r", "w", " ", "h", "I", " ", "n", "w",
            "m", " ", "j", "p", "y", "[", " ">> >>

\* Lines 160-171.
_akhand_paath_arambh(add) ==
    IF ~add THEN <<>>
    ELSE <<
          <<"A", "w", "p", " ", "j", "I", " ", "d", "y", " ", "d", "w",
            "s", "W", " ", "n", "U", "M", " ", "A", "w", "i", "g", "A",
            "w", " ", "b", "K", "S", "o", " ", "A", "K", "M", "f", " ",
            "p", "w", "T", " ", "d", "w", " ", "A", "w", "r", "M", "B",
            "q", "w", " ", "k", "r", "n", " ", "l", "e", "I", "[", " ">> >>

\* Lines 174-185.
_akhand_paath_bhog(add) ==
    IF ~add THEN <<>>
    ELSE <<
          <<"A", "w", "p", " ", "j", "I", " ", "d", "y", " ", "d", "w",
            "s", "W", " ", "n", "y", " ", "A", "K", "M", "f", " ", "p",
            "w", "T", " ", "r", "i", "K", "A", "w", "[", " ">> >>

\* Lines 188-197.
_birthday(add) ==
    IF ~add THEN <<>>
    ELSE <<
          <<"A", "~", "j", " ", ".", ".", ".", " ", "d", "w", " ", "j",
            "n", "m", "i", "d", "n", " ", "h", "Y", "[", " ">>,
          <<"i", "e", "n", "U", "M", " ", "g", "u", "r", "i", "s", "K",
            "I", " ", "j", "I", "v", "n", " ", "b", "K", "S", "o", " ",
            "j", "I", "[", " ">> >>

\* Lines 200-222: jagat_jalandhaa, then hukamanama_benti.
_hukamnama(add, multiple) ==
    IF ~add THEN <<>>
    ELSE <<
          <<"j", "g", "q", "u", " ", "j", "l", "U+00C2", "U+00B5", "d",
            "w", " ", "r", "i", "K", " ", "l", "Y", " ", "A", "w", "p",
            "x", "I", " ", "i", "k", "r", "p", "w", " ", "D", "w", "i",
            "r", "]", " ">>
          \o <<"i", "j", "q", "u", " ", "d", "u", "A", "w", "r", "Y", " ",
            "a", "u", "b", "r", "Y", " ", "i", "q", "q", "Y", " ", "l",
            "Y", "h", "u", " ", "a", "u", "b", "w", "i", "r", "]", " ">>
          \o <<"s", "i", "q", "g", "u", "i", "r", " ", "s", "u", "K", "u",
            " ", "v", "y", "K", "w", "i", "l", "A", "w", " ", "s", "c",
            "w", " ", "s", "b", "d", "u", " ", "b", "I", "c", "w", "i",
            "r", "]", " ">>
          \o <<"n", "w", "n", "k", " ", "A", "v", "r", "u", " ", "n", " ",
            "s", "u", "J", "e", "I", " ", "h", "i", "r", " ", "i", "b",
            "n", "u", " ", "b", "K", "s", "x", "h", "w", "r", "u", "]",
            " ">>,
          _pluralise(<<"d", "w", "s">>, multiple)
          \o <<" ", "n", "U", "M", " ", "a", "w", "p", " ", "j", "I", " ",
            "d", "w", " ", "p", "w", "v", "n", " ", "p", "i", "v", "q",
            "r", " ", "h", "u", "k", "m", "n", "w", "m", "w", " ", "b",
            "K", "S", "o", " ">>
          \o <<"j", "I", " ", "q", "y", " ", "h", "u", "k", "m", "n", "w",
            "m", "y", " ", "d", "y", " ", "c", "~", "l", "x", " ", "d",
            "I", " ", "s", "m", "r", "~", "Q", "w", " ", "b", "K", "S",
            "o", "[", " ">> >>

\* Lines 225-236.
_katha(add) ==
    IF ~add THEN <<>>
    ELSE <<
          <<"A", "w", "p", " ", "j", "I", " ", "d", "w", " ", "A", "k",
            "~", "Q", " ", "k", "~", "Q", "w", " ", "k", "r", " ", "i",
            "d", "A", "w", "[", " ">> >>

\* Lines 239-250.
_kirtan(add) ==
    IF ~add THEN <<>>
    ELSE <<
          <<"S", "b", "d", " ", "k", "I", "r", "q", "n", " ", "h", "o",
            "e", "y", "[", " ">> >>

\* Lines 291-307.
_read_banis(add, multiple) ==
    IF ~add THEN <<>>
    ELSE <<
          _pluralise(<<"d", "w", "s">>, multiple)
          \o <<" ", "n", "y", " ", "A", "w", "p", " ", "j", "I", " ", "d",
            "y", " ", "c", "r", "n", "w", " ", "k", "m", "l", "w", " ",
            "p", "w", "s", " ", "S", "u", "~", "D", " ", "A", "q", "y",
            " ">>
          \o <<"s", "p", "~", "S", "t", " ", "b", "w", "n", "I", " ", "p",
            "V", "I", ",", " ", "s", "u", "x", "I", " ", "A", "q", "y",
            " ", "i", "v", "c", "w", "r", " ", "k", "I", "q", "w", "[",
            " ">>,
          <<"i", "e", "s", " ", "b", "w", "n", "I", " ", "d", "w", " ",
            "B", "w", "v", ",", " ", "i", "e", "s", " ", "b", "w", "n",
            "I", " ", "d", "w", " ", "P", "~", "l", " ", "s", "M", "g",
            "q", "w", " ", "d", "y", " ", "i", "h", "r", "d", "y", " ",
            "i", "v", "c", " ", "v", "s", "w", "a", "u", "x", "w", "[",
            " ">>,
          <<"b", "w", "n", "I", " ", "p", "V", "H", "n", ",", " ", "s",
            "u", "x", "n", " ", "A", "q", "y", " ", "i", "v", "c", "w",
            "r", " ", "k", "r", "n", " ", "d", "y", " ", "i", "v", "c",
            " ", "A", "n", "k", "y", "W", " ", "p", "r", "k", "w", "r",
            " ", "d", "I", "A", "w", " ", "g", "l", "q", "I", "A", "W",
            " ", "h", "o", "i", "e", "A", "w", "[", " ">>,
          <<"B", "u", "l", " ", "c", "u", "U+0060", "k", " ", "m", "w",
            "P", " ", "k", "r", "n", "I", "[", " ">> >>

\* Lines 310-319.
_read_specific_banis(add) ==
    IF ~add THEN <<>>
    ELSE <<
          <<"A", "w", "p", " ", "j", "I", " ", ".", ".", ".", " ", "d",
            "w", " ", "j", "w", "p", " ", "k", "r", "v", "w", "i", "e",
            "A", "w", "[", " ">> >>

\* Lines 322-335.
_sehaj_paath_arambh(add, multiple) ==
    IF ~add THEN <<>>
    ELSE <<
          <<"A", "w", "p", " ", "j", "I", " ", "d", "y", " ">>
          \o _pluralise(<<"d", "w", "s">>, multiple)
          \o <<" ", "n", "U", "M", " ", "A", "w", "i", "g", "A", "w", " ",
            "b", "K", "S", "o", " ", "s", "h", "j", " ", "p", "w", "T",
            " ", "d", "w", " ">>
          \o <<"r", "O", "l", " ", "d", "w", " ", "A", "w", "r", "M", "B",
            "q", "w", " ", "k", "r", "n", " ", "l", "e", "I", "[", " ">> >>

\* Lines 338-350.
_sehaj_paath_madh(add, multiple) ==
    IF ~add THEN <<>>
    ELSE <<
          <<"A", "w", "p", " ", "j", "I", " ", "d", "y", " ">>
          \o _pluralise(<<"d", "w", "s">>, multiple)
          \o <<" ", "n", "y", " ", "s", "h", "j", " ", "p", "w", "T", " ",
            "i", "v", "c", " ", "m", "D", " ", "i", "v", "c", " ", "A",
            "w", "e", "I", " ", "h", "Y", "[", " ">> >>

\* Lines 353-365.
_sehaj_paath_bhog(add, multiple) ==
    IF ~add THEN <<>>
    ELSE <<
          <<"A", "w", "p", " ", "j", "I", " ", "d", "y", " ">>
          \o _pluralise(<<"d", "w", "s">>, multiple)
          \o <<" ", "n", "y", " ", "s", "h", "j", " ", "p", "w", "T", " ",
            "d", "w", " ", "r", "O", "l", " ", "r", "i", "K", "A", "w",
            "[", " ">> >>

\* Lines 368-377.
_sukhaasan_pre(add) ==
    IF ~add THEN <<>>
    ELSE <<
          <<"A", "w", "p", " ", "j", "I", " ", "d", "I", " ", "s", "u",
            "K", "w", "s", "n", " ", "s", "y", "v", "w", " ", "k", "r",
            "n", " ", "d", "w", " ", "A", "w", "i", "g", "A", "w", " ",
            "b", "K", "S", "n", "w", "[", " ">> >>

\* Lines 380-391.
_sukhaasan_post(add) ==
    IF ~add THEN <<>>
    ELSE <<
          <<"A", "w", "i", "g", "A", "w", " ", "i", "m", "l", " ", "k",
            "y", " ", "k", "I", "r", "q", "n", " ", "s", "o", "i", "h",
            "l", "w", " ", "d", "w", " ", "p", "w", "T", " ", "p", "V",
            "I", " ", "g", "e", "I", " ", "A", "q", "y", " ", "A", "w",
            "p", " ", "j", "I", " ", "d", "I", " ", "s", "u", "K", "w",
            "s", "n", " ", "s", "y", "v", "w", " ", "h", "o", "e", "I",
            "[", " ">> >>

\* Lines 394-407: sukhmani, then sukhmani_ardaas.
_sukhmani(add) ==
    IF ~add THEN <<>>
    ELSE <<
          <<"s", "u", "K", "m", "n", "I", " ", "s", "u", "K", " ", "A",
            "M", "i", "m", "R", "q", " ", "p", "R", "B", " ", "n", "w",
            "m", "u", "]", " ", "B", "g", "q", " ", "j", "n", "w", " ",
            "k", "Y", " ", "m", "i", "n", " ", "i", "b", "s", "R", "w",
            "m", "]", " ">>,
          <<"s", "u", "K", "m", "n", "I", " ", "s", "w", "i", "h", "b",
            " ", "d", "w", " ", "j", "w", "p", " ", "h", "o", "w", "[",
            " ">> >>

\* Line 91.
start_unicode ==
    << <<"A", "w", "p", " ", "j", "I", " ", "d", "y", " ", "h", "z", "U",
         "r", " ", "A", "r", "d", "w", "s", " ", "b", "y", "N", "q", "I",
         " ", "j", "o", "d", "V", "I", " ", "h", "Y", "[", " ">> >>

\* Lines 92-98.
end_unicode ==
    << <<"A", "~", "K", "r", " ", "v", "w", "D", "w", " ", "G", "w", "t",
         "w", " ", "B", "u", "l", " ", "c", "u", "k", " ", "m", "w", "P",
         " ", "k", "r", "n", "I", "[", " ">>,
       <<"s", "r", "b", "~", "q", " ", "d", "y", " ", "k", "w", "r", "j",
         " ", "r", "w", "s", " ", "k", "r", "n", "y", "[", " ">>,
       <<"s", "e", "I", " ", "i", "p", "A", "w", "r", "y", " ", "m", "y",
         "l", " ", "i", "j", "n", "H", "W", " ", "i", "m", "i", "l", "A",
         "W", " ", "q", "y", "r", "w", " ", "n", "w", "m", " ", "i", "c",
         "q", " ", "A", "w", "v", "y", "[", " ">>,
       <<"n", "w", "n", "k", " ", "n", "w", "m", " ", "c", "V", "H", "d",
         "I", " ", "k", "l", "w", "[", " ">>,
       <<"q", "y", "r", "y", " ", "B", "w", "n", "y", " ", "s", "r", "b",
         "~", "q", " ", "d", "w", " ", "B", "l", "w", "[", " ">> >>

\* Lines 137-146: the two lines every prayer holds.
bachey(multiple) ==
    << _pluralise(<<"A", "w", "p", "x", "y">>, multiple)
       \o <<" ", "A", "x", "j", "w", "x", " ">>
       \o _pluralise(<<"b", "~", "c", "y">>, multiple)
       \o <<" ", "d", "y", " ", "i", "s", "r", " ", "q", "y", " ", "m", "y",
         "h", "r", " ", "B", "i", "r", "A", "w", " ", "h", "~", "Q", " ">>
       \o <<"r", "~", "K", "x", "w", "[", " ">>,
       _pluralise(<<"A", "w", "p", "x", "y">>, multiple)
       \o <<" ">>
       \o _pluralise(<<"b", "~", "c", "y">>, multiple)
       \o <<" ", "n", "U", "M", " ", "k", "w", "m", " ", "k", "R", "o", "D",
         " ", "l", "o", "B", " ", "m", "o", "h", " ", "A", "h", "M", "k",
         "w", "r", " ">>
       \o <<"a", "u", "s", "q", "~", "q", " ", "i", "n", "M", "i", "d", "A",
         "w", " ", "c", "u", "g", "l", "I", "A", "w", " ", "q", "o", "N",
         " ", "b", "c", "w", "A", " ", "k", "y", " ", "r", "~", "K", "x",
         "w", "[", " ">> >>

\* Lines 100-150: the list of lines for the options c.
ardaas_unicode(c) ==
    start_unicode
    \o _read_specific_banis(c.read_bani)
    \o _sukhmani(c.sukhmani)
    \o _kirtan(c.kirtan)
    \o _anand_sahib(c.anand_sahib)
    \o _sukhaasan_post(c.sukhaasan_post)
    \o _read_banis(c.read_bani \/ c.sukhmani \/ c.kirtan \/ c.anand_sahib
                   \/ c.sukhaasan_post, c.multiple)
    \o _katha(c.katha)
    \o _akhand_paath_arambh(c.akhand_paath_arambh)
    \o _akhand_paath_bhog(c.akhand_paath_bhog)
    \o _sehaj_paath_arambh(c.sehaj_paath_arambh, c.multiple)
    \o _sehaj_paath_madh(c.sehaj_paath_madh, c.multiple)
    \o _sehaj_paath_bhog(c.sehaj_paath_bhog, c.multiple)
    \o _birthday(c.birthday)
    \o _hukamnama(c.hukamnama, c.multiple)
    \o _degh(c.parshaad, c.langar)
    \o _sukhaasan_pre(c.sukhaasan_pre)
    \o bachey(c.multiple)
    \o _amrit_vela(c.amrit_vela, c.multiple)
    \o end_unicode

\* src/src/main.py:45-130: the options of the ardaas subcommand, all
\* store_true flags. The first NumOptions of this order may be set.
OptionOrder ==
    <<"romanised", "hukamnama", "multiple", "unicode", "kirtan",
      "parshaad", "langar", "amrit_vela", "birthday", "read_bani",
      "sukhmani", "katha", "anand_sahib", "sukhaasan_pre",
      "sukhaasan_post", "akhand_paath_arambh", "akhand_paath_bhog",
      "sehaj_paath_arambh", "sehaj_paath_madh", "sehaj_paath_bhog">>

OptionNames == {OptionOrder[j] : j \in 1..Len(OptionOrder)}

\* The mutually exclusive groups of main.py:55-119.
ExclusiveGroups ==
    {{"unicode", "romanised"},
     {"akhand_paath_arambh", "akhand_paath_bhog"},
     {"sehaj_paath_arambh", "sehaj_paath_madh", "sehaj_paath_bhog"},
     {"sukhaasan_pre", "sukhaasan_post"}}

\* The namespaces parse_args can hand to the composer.
Namespaces ==
    {[o \in OptionNames |-> o \in S] :
        S \in {T \in SUBSET {OptionOrder[j] : j \in 1..NumOptions} :
                 \A g \in ExclusiveGroups : Cardinality(T \cap g) <= 1}}

\* src/src/_cmn.py:119-131.
RC ==
    [SUCCESS |-> "00", UNHANDLED_ERROR |-> "10", LOAD_WEBPAGE_ERROR |-> "20",
     SCRAPE_HTML_ERROR |-> "21", NOT_IMPLEMENTED |-> "90"]

\* src/src/_cmn.py:133-138.
is_ok(v) == v \in {RC.SUCCESS}

\* int(rc.value) of main.py:42.
int(v) ==
    CASE v = "00" -> 0 [] v = "10" -> 10 [] v = "20" -> 20
      [] v = "21" -> 21 [] v = "90" -> 90

\* main.py:249: exception = None.
None == [type |-> "None"]

\* The exception swallowed as if it were a KeyboardInterrupt.
HandlePass(exc, rc0, exception0) == [rc |-> rc0, exception |-> exception0]

\* main.py:251-264: what the except clauses make of the exception exc
\* raised under subparser.parse.
Handle(exc, rc0, exception0) ==
    IF exc.type = "KeyboardInterrupt"
    THEN [rc |-> rc0, exception |-> exception0]
    ELSE IF exc.type = "NotImplementedError"
    THEN [rc |-> RC.NOT_IMPLEMENTED,
          exception |-> [type |-> "NotImplementedException",
                         traceback |-> exc]]
    ELSE IF exc.type = "Error"
    THEN [rc |-> exc.rc, exception |-> exc]
    ELSE [rc |-> RC.UNHANDLED_ERROR,
          exception |-> [type |-> "UnhandledExceptionError",
                         traceback |-> exc]]

\* Translated whatever the options say, unless unicode is asked for.
TranslateUnlessUnicode(c) == ~c.unicode

\* _ardaas.py:154.
ShouldTranslate(c) == c.romanised

\* The locals of the engine call in progress.
Frame ==
    [unicode |-> unicode, i |-> i, romanised |-> romanised, buf |-> buf,
     adhak |-> adhak, pc |-> pc, outcome |-> outcome]

\* main.py:189-249 with "ardaas" as the subcommand: rc is SUCCESS, no
\* exception yet, and parse is about to call _generate(ctx).
InitArdaas ==
    /\ ctx \in Namespaces
    /\ ardaas = <<>>
    /\ stdout = <<>>
    /\ stderr = <<>>
    /\ calls = <<>>
    /\ cpc = "generate"
    /\ rc = RC.SUCCESS
    /\ exception = None
    /\ Entry(<<>>, NoLocals)
    /\ pc = "none"
    /\ outcome = NoOutcome
    /\ memo = {}
    /\ frames = <<>>
    /\ NoArchive

\* _ardaas.py:91-151.
Assemble ==
    /\ cpc = "generate"
    /\ is_ok(rc)
    /\ ardaas' = Join(ardaas_unicode(ctx))
    /\ cpc' = "assembled"
    /\ UNCHANGED <<unicode, i, romanised, buf, adhak, pc, outcome, memo>>
    /\ UNCHANGED <<frames, ctx, stdout, stderr, calls, rc, exception>>
    /\ UNCHANGED archive

\* _ardaas.py:154-155, the call: the engine starts on the text
\* (_cmn.py:257-268).
CallEngine ==
    /\ cpc = "assembled"
    /\ ShouldTranslate(ctx)
    /\ calls' = Append(calls, ardaas)
    /\ unicode' = ardaas
    /\ i' = 0
    /\ romanised' = InitialLocals(Frame).romanised
    /\ buf' = InitialLocals(Frame).buf
    /\ adhak' = InitialLocals(Frame).adhak
    /\ pc' = "scan"
    /\ outcome' = NoOutcome
    /\ cpc' = "engine"
    /\ UNCHANGED <<memo, frames, ctx, ardaas, stdout, stderr, rc, exception>>
    /\ UNCHANGED archive

\* One pass through the loop body of the engine, or its return, while the
\* composer waits at line 155.
EngineStep ==
    /\ cpc = "engine"
    /\ pc = "scan"
    /\ LET f == Iteration(Frame)
       IN /\ unicode' = f.unicode
          /\ i' = f.i
          /\ romanised' = f.romanised
          /\ buf' = f.buf
          /\ adhak' = f.adhak
          /\ pc' = f.pc
          /\ outcome' = f.outcome
    /\ UNCHANGED memo
    /\ UNCHANGED outside

\* _ardaas.py:155, the assignment of the returned string.
EngineReturned ==
    /\ cpc = "engine"
    /\ outcome.kind = "return"
    /\ ardaas' = outcome.value
    /\ cpc' = "translated"
    /\ UNCHANGED <<unicode, i, romanised, buf, adhak, pc, outcome, memo>>
    /\ UNCHANGED <<frames, ctx, stdout, stderr, calls, rc, exception>>
    /\ UNCHANGED archive

\* The engine raised: nothing in _generate or parse catches it, and it
\* reaches the except clauses of main.py:255-264.
EngineRaised ==
    /\ cpc = "engine"
    /\ outcome.kind = "raise"
    /\ rc' = Handle(outcome, rc, exception).rc
    /\ exception' = Handle(outcome, rc, exception).exception
    /\ cpc' = "handled"
    /\ UNCHANGED <<unicode, i, romanised, buf, adhak, pc, outcome, memo>>
    /\ UNCHANGED <<frames, ctx, ardaas, stdout, stderr, calls>>
    /\ UNCHANGED archive

\* _ardaas.py:157 and 263, main.py:254: print(ardaas), then parse
\* returns SUCCESS to main. stdout is the list of the printed lines.
WriteStdout ==
    /\ \/ cpc = "translated"
       \/ cpc = "assembled" /\ ~ShouldTranslate(ctx)
    /\ stdout' = Append(stdout, ardaas)
    /\ rc' = RC.SUCCESS
    /\ cpc' = "parsed"
    /\ UNCHANGED <<unicode, i, romanised, buf, adhak, pc, outcome, memo>>
    /\ UNCHANGED <<frames, ctx, ardaas, stderr, calls, exception>>
    /\ UNCHANGED archive

\* main.py:266 and 34-42: _exit logs the exception, if there is one, on
\* the stream of the logger (stderr) and exits with int(rc.value).
Exit ==
    /\ cpc \in {"parsed", "handled"}
    /\ stderr' = IF exception # None THEN Append(stderr, exception)
                 ELSE stderr
    /\ cpc' = "exited"
    /\ UNCHANGED <<unicode, i, romanised, buf, adhak, pc, outcome, memo>>
    /\ UNCHANGED <<frames, ctx, ardaas, stdout, calls, rc, exception>>
    /\ UNCHANGED archive

NextArdaas ==
    \/ Assemble
    \/ CallEngine
    \/ EngineStep
    \/ EngineReturned
    \/ EngineRaised
    \/ WriteStdout
    \/ Exit

SpecArdaas == InitArdaas /\ [][NextArdaas]_vars

---------------------------------------------------------------------------
(* C12, C13 *)

\* The composer is past the test of line 154.
Decided == cpc \in {"engine", "translated", "handled", "parsed", "exited"}

\* C12. The composer calls the engine at most once, and only on the
\* fully assembled text; with romanised set it has called it once it is
\* past line 154, and without romanised it never calls it and what it
\* prints is the assembled text itself.
C12_ComposerBoundary ==
    /\ Len(calls) <= 1
    /\ calls # <<>> =>
         ctx.romanised /\ calls = <<Join(ardaas_unicode(ctx))>>
    /\ Decided /\ ctx.romanised => Len(calls) = 1
    /\ ~ctx.romanised =>
         /\ calls = <<>>
         /\ stdout \in {<<>>, <<Join(ardaas_unicode(ctx))>>}
         /\ cpc \in {"parsed", "exited"} => stdout # <<>>

C12_Witness ==
    /\ cpc = "exited"
    /\ ctx.romanised /\ ctx.multiple /\ ~ctx.hukamnama
    /\ calls = <<Join(ardaas_unicode(ctx))>>
    /\ stdout = <<outcome.value>>
    /\ outcome.value # Join(ardaas_unicode(ctx))

\* C13. Once the engine call of a romanised run has failed, nothing is
\* printed, neither the fragments translated so far nor the assembled
\* text; main records an exception and a return code that is not
\* SUCCESS, and the run exits with the exception logged and a non-zero
\* status.
C13_EngineFailure ==
    outcome.kind = "raise" =>
        /\ stdout = <<>>
        /\ cpc \in {"engine", "handled", "exited"}
        /\ cpc \in {"handled", "exited"} =>
             /\ ~is_ok(rc)
             /\ int(rc) # 0
             /\ exception # None
             /\ exception.traceback = outcome
        /\ cpc = "exited" => stderr = <<exception>>

C13_Witness ==
    /\ cpc = "exited"
    /\ ctx.romanised /\ ctx.hukamnama
    /\ outcome = KeyError("U+00C2")
    /\ romanised # <<>>
    /\ stdout = <<>>
    /\ rc = RC.UNHANDLED_ERROR
    /\ Len(stderr) = 1

---------------------------------------------------------------------------
(* C14..C20: the rules of the loop body, one by one, under Spec.         *)

\* The loop takes the character char in this step and goes on.
Consumes == pc = "scan" /\ i < Len(unicode) /\ i' = i + 1

\* The character taken goes through lines 295-321 (it is neither a
\* gemination mark, a sihaari nor a pairee).
Plain(c) ==
    /\ c \in DOMAIN mapping
    /\ c \notin DOMAIN special_mapping
    /\ c # "i"
    /\ c \notin DOMAIN pairee_mapping

\* C14. After the loop has taken a sihaari, a consonant and a pairee in
\* this order, the last three fragments are the consonant's, the
\* pairee's and "i": the consonant's fragment is still there.
C14_PaireeReordering ==
    /\ i >= 3
    /\ unicode[i - 2] = "i"
    /\ IsConsonant(unicode[i - 1])
    /\ unicode[i] \in DOMAIN pairee_mapping
    => /\ Len(romanised) >= 3
       /\ IsFragmentOf(romanised[Len(romanised) - 2], unicode[i - 1])
       /\ romanised[Len(romanised) - 1] = mapping[unicode[i]]
       /\ Last(romanised) = <<"i">>

\* The characters whose fragment C15 speaks of.
Phonetic(c) ==
    /\ c \in DOMAIN consonant_mapping \cup DOMAIN pairee_mapping
             \cup DOMAIN vowel_mapping \cup DOMAIN oora_aera_eeri_mapping
             \cup DOMAIN semi_vowel_mapping
    /\ c # "i"
    /\ mapping[c] # <<>>

\* The fragment of char is in the list after the step, upper-cased, in
\* one of the last two places (a flushed or kept "i" may follow it).
EmittedUpper ==
    \E j \in {Len(romanised'), Len(romanised') - 1} :
        j >= 1 /\ romanised'[j] = Upper(mapping[char])

\* The same with the fragment as the tables give it.
EmittedPlain ==
    \E j \in {Len(romanised'), Len(romanised') - 1} :
        j >= 1 /\ romanised'[j] = mapping[char]

\* C15. A gemination mark emits nothing and sets the flag; with the flag
\* set, the next fragment emitted, of whatever class, is upper-cased and
\* the flag is cleared by it; with the flag clear the fragment is
\* emitted as the tables give it.
C15_GeminationApplied ==
    [][/\ Consumes /\ char \in DOMAIN special_mapping
          => adhak' /\ romanised' = romanised
       /\ Consumes /\ Phonetic(char) /\ adhak => EmittedUpper /\ ~adhak'
       /\ Consumes /\ Phonetic(char) /\ ~adhak => EmittedPlain /\ ~adhak']_vars

\* C16 as stated: the buffered sihaari leaves the buffer only in a step
\* that takes a consonant.
C16_Original ==
    [][Consumes /\ buf # <<>> /\ buf' = <<>> => IsConsonant(char)]_vars

\* C16. A buffered sihaari stays in the buffer over a sihaari, a pairee
\* and a gemination mark, and is appended to the output by the very next
\* character of any other kind (consonant, space, punctuation, vowel
\* sign, nasalization mark, carrier), right after that character's
\* fragment if it has one.
C16_FlushPoint ==
    [][Consumes /\ char \in DOMAIN mapping /\ buf # <<>> =>
         IF Plain(char)
         THEN /\ buf' = <<>>
              /\ Last(romanised') = buf
              /\ Len(romanised') =
                   Len(romanised) + 1 + (IF mapping[char] # <<>> THEN 1 ELSE 0)
              /\ mapping[char] # <<>> =>
                   romanised'[Len(romanised') - 1]
                     \in {mapping[char], Upper(mapping[char])}
         ELSE /\ buf' = buf
              /\ Len(romanised') <= Len(romanised) + 1
              /\ char \notin DOMAIN pairee_mapping => romanised' = romanised]_vars

C16_Witness ==
    /\ unicode = <<"i", " ">>
    /\ i = 2
    /\ romanised = << <<" ">>, <<"i">> >>
    /\ buf = <<>>

\* How many elements of the sequence s are in the set S.
Count(s, S) == Cardinality({j \in 1..Len(s) : s[j] \in S})

\* C17. A call that returns has put every sihaari of its input into the
\* result: as many "i" fragments (bare or bracketed) as there are
\* sihaaris, and when the input ends on a sihaari the result ends on "i".
C17_NothingPendingAtEnd ==
    pc = "done" =>
        /\ Count(romanised, {<<"i">>, <<"(", "i", ")">>}) = Count(unicode, {"i"})
        /\ unicode # <<>> /\ Last(unicode) = "i" =>
             outcome.value # <<>> /\ Last(outcome.value) = "i"

\* With the space at the zero-based index i: src[i-2] is the sihaari and
\* src[i-1] is not the eeri (src[k] is unicode[k + 1] here; before the
\* first symbol there is none).
SihaariNoEeri == i >= 2 /\ unicode[i - 1] = "i" /\ unicode[i] # "e"

\* src[i-1] is the aunkar and src[i-2] is not the oora.
AunkarNoOora == i >= 1 /\ unicode[i] = "u" /\ (i >= 2 => unicode[i - 1] # "a")

\* C18. On a space at index i with some output already, the last
\* fragment is wrapped in brackets exactly when (src[i-2] is sihaari and
\* src[i-1] is not eeri) or (src[i-1] is aunkar and src[i-2] is not
\* oora); the fragments before the last stay as they are.
C18_BracketingCondition ==
    [][Consumes /\ char = " " /\ romanised # <<>> =>
         /\ romanised'[Len(romanised)] =
              IF SihaariNoEeri \/ AunkarNoOora
              THEN <<"(">> \o Last(romanised) \o <<")">>
              ELSE Last(romanised)
         /\ SubSeq(romanised', 1, Len(romanised) - 1)
              = SubSeq(romanised, 1, Len(romanised) - 1)]_vars

\* The incoming fragment starts with "aa".
StartsWithAa ==
    Len(mapping[char]) >= 2 /\ SubSeq(mapping[char], 1, 2) = <<"a", "a">>

\* The step empties the fragment that was last.
DeletesLast ==
    /\ romanised # <<>>
    /\ Last(romanised) # <<>>
    /\ romanised'[Len(romanised)] = <<>>

\* C19 as stated: the last fragment is deleted exactly when it is the
\* lower-case "a" and the incoming fragment starts with "aa".
C19_Original ==
    [][Consumes /\ Plain(char) /\ romanised # <<>> =>
         (DeletesLast <=>
            Last(romanised) = <<"a">> /\ StartsWithAa)]_vars

\* C19. The last fragment is deleted exactly when it is "a" in either
\* case (as the table gives it, or upper-cased by a gemination mark) and
\* the incoming fragment holds "aa"; the incoming fragment then follows
\* the emptied one, so aera and kannaa give "aa".
C19_LongAaCollapse ==
    [][Consumes /\ Plain(char) /\ romanised # <<>> =>
         /\ DeletesLast <=>
              /\ Last(romanised) \in {<<"a">>, <<"A">>}
              /\ Contains(mapping[char], <<"a", "a">>)
         /\ DeletesLast =>
              romanised'[Len(romanised) + 1]
                \in {mapping[char], Upper(mapping[char])}]_vars

C19_Witness ==
    /\ unicode = <<"~", "A", "w">>
    /\ pc = "done"
    /\ romanised = << <<>>, <<"a", "a">> >>
    /\ outcome = Returned(<<"a", "a">>)

\* C20. When the loop has taken oora or eeri and then a dependent vowel
\* sign other than the sihaari, the fragment before the vowel sign's
\* fragment ends with the implicit "a".
C20_BareCarrierVowel ==
    /\ i >= 2
    /\ unicode[i - 1] \in {"a", "e"}
    /\ unicode[i] \in DOMAIN vowel_mapping \ {"i"}
    /\ ~SihaariWaiting(unicode, i - 2)
    => /\ Len(romanised) >= 2
       /\ IsFragmentOf(Last(romanised), unicode[i])
       /\ EndsWith(romanised[Len(romanised) - 1], <<"a">>)

---------------------------------------------------------------------------
(* Calls on strings over the nasalization marks, the escape character    *)
(* "@", both pairees and a few letters around them.                      *)

MarkOrder ==
    <<"N", "M", "U+00B5", "@", "R", "k", "i", "~", "H", "n", "A", " ", "w">>

\* Number of symbols of MarkOrder and longest input (specification
\* SpecMarks).
NumMarkSymbols == 10
MaxMarkLen == 3

MarkInputs == Strings({MarkOrder[j] : j \in 1..NumMarkSymbols}, MaxMarkLen)

InitMarks ==
    /\ \E u \in MarkInputs : Entry(u, NoLocals)
    /\ pc = "scan"
    /\ outcome = NoOutcome
    /\ memo = {}
    /\ NoRun

SpecMarks == InitMarks /\ [][Next]_vars

---------------------------------------------------------------------------
(* C21..C24, C29, C30 *)

\* C21. Every step leaves the fragments before the last one as they are
\* and never makes the list shorter: it appends, replaces the last
\* fragment or wraps it.
C21_OutputMutations ==
    [][/\ Len(romanised') >= Len(romanised)
       /\ SubSeq(romanised', 1, Len(romanised) - 1)
            = SubSeq(romanised, 1, Len(romanised) - 1)]_vars

\* C22. After a consonant with no sihaari waiting for it and a pairee,
\* the last two fragments are the consonant's, without an "a", and the
\* pairee's; after a consonant more, the pairee's fragment has the "a"
\* and the new consonant's fragment follows; "kRn" gives "kran".
C22_ConsonantPairee ==
    /\ /\ i >= 2
       /\ IsConsonant(unicode[i - 1])
       /\ unicode[i] \in DOMAIN pairee_mapping
       /\ ~SihaariWaiting(unicode, i - 2)
       => /\ Len(romanised) >= 2
          /\ IsFragmentOf(romanised[Len(romanised) - 1], unicode[i - 1])
          /\ Last(romanised) = mapping[unicode[i]]
    /\ /\ i >= 3
       /\ IsConsonant(unicode[i - 2])
       /\ unicode[i - 1] \in DOMAIN pairee_mapping
       /\ IsConsonant(unicode[i])
       /\ ~SihaariWaiting(unicode, i - 3)
       => /\ Len(romanised) >= 3
          /\ IsFragmentOf(romanised[Len(romanised) - 2], unicode[i - 2])
          /\ romanised[Len(romanised) - 1] = mapping[unicode[i - 1]] \o <<"a">>
          /\ IsFragmentOf(Last(romanised), unicode[i])
    /\ unicode = <<"k", "R", "n">> /\ pc = "done"
       => outcome = Returned(<<"k", "r", "a", "n">>)

C22_Witness ==
    /\ unicode = <<"k", "R", "n">>
    /\ pc = "done"
    /\ romanised = << <<"k">>, <<"r", "a">>, <<"n">> >>

\* C23 as stated: a nasalization mark puts its fragment, as the table
\* gives it, right after the fragments there are, whatever the flag.
C23_Original ==
    [][Consumes /\ char \in DOMAIN semi_vowel_mapping =>
         /\ Len(romanised') > Len(romanised)
         /\ romanised'[Len(romanised) + 1] = mapping[char]
         /\ SubSeq(romanised', 1, Len(romanised)) = romanised]_vars

\* C23. A nasalization mark appends its fragment, upper-cased when the
\* gemination flag is pending (which it clears), then the buffered
\* sihaari if there is one, and changes no earlier fragment.
C23_NasalizationMarks ==
    [][Consumes /\ char \in DOMAIN semi_vowel_mapping =>
         /\ romanised' =
              romanised
              \o << IF adhak THEN Upper(mapping[char]) ELSE mapping[char] >>
              \o (IF buf # <<>> THEN <<buf>> ELSE <<>>)
         /\ ~adhak'
         /\ buf' = <<>>]_vars

C23_Witness ==
    /\ unicode = <<"k", "~", "N">>
    /\ pc = "done"
    /\ romanised = << <<"k">>, <<"U+1E44">> >>

\* C24. A call on an input that holds the escape "@@@" does not fail on
\* the character "@".
C24_EscapeSupported ==
    Contains(unicode, <<"@", "@", "@">>) => outcome # KeyError("@")

\* The fragments the call on the first j characters of unicode has built
\* when it has taken them all.
RECURSIVE PrefixRun(_)
PrefixRun(f) ==
    IF f.pc = "scan" /\ f.i < Len(f.unicode) THEN PrefixRun(Iteration(f)) ELSE f

\* C29. When the loop has just taken a space, the fragments are those
\* the call on the input cut after that space has at the same point;
\* and a space at index 0 or 1 leaves no fragment in brackets.
C29_BracketingLooksBack ==
    i >= 1 /\ unicode[i] = " " =>
        /\ romanised = PrefixRun(NewFrame(SubSeq(unicode, 1, i))).romanised
        /\ i <= 2 =>
             \A j \in 1..Len(romanised) :
                 romanised[j] # <<>> => romanised[j][1] # "("

\* C30. The assembled text holds symbols of the engine's tables only and
\* the engine call of a romanised run does not fail.
C30_TextInAlphabet ==
    /\ cpc # "generate" => Known(Join(ardaas_unicode(ctx)))
    /\ outcome.kind # "raise"


---------------------------------------------------------------------------
(* The hukamnama archive: src/src/_hukamnama.py, "hukamnama data" runs.  *)
(* A date is a day number, 2002-01-01 being day 1; the calendar is cut   *)
(* into months of DaysPerMonth days. A run is one process: main, parse,  *)
(* _data, _update_database. The site is a fixed table of pages, one per  *)
(* date. A page of the model says which of ang, raag and writer the      *)
(* regular expressions find in it and which shabad it shows.             *)

MaxDay == 3
DaysPerMonth == 2
MaxRuns == 3
NumPages == 4

_FIRST_DATE == 1
\* most_recent = None (line 474).
NoDate == 0

Dates == _FIRST_DATE..MaxDay

\* _database_file_name (lines 382-393): one file per calendar month.
_database_file_name(d) == (d - _FIRST_DATE) \div DaysPerMonth

Months == {_database_file_name(d) : d \in Dates}

DataUpdate ==
    [UNKNOWN |-> 0, WRITE |-> 1, UPDATE |-> 2, UPDATE_FILL_GAPS |-> 3]

\* The modes the mutually exclusive, required group of main.py:155-182
\* can put in ctx.update.
UpdateMethods ==
    {DataUpdate.WRITE, DataUpdate.UPDATE, DataUpdate.UPDATE_FILL_GAPS}

PageOrder ==
    << [ang |-> TRUE, raag |-> TRUE, writer |-> TRUE, shabad |-> "s1"],
       [ang |-> TRUE, raag |-> TRUE, writer |-> TRUE, shabad |-> "s2"],
       [ang |-> FALSE, raag |-> TRUE, writer |-> TRUE, shabad |-> "s1"],
       [ang |-> TRUE, raag |-> FALSE, writer |-> TRUE, shabad |-> "s1"],
       [ang |-> TRUE, raag |-> TRUE, writer |-> FALSE, shabad |-> "s1"] >>

Pages == {PageOrder[j] : j \in 1..NumPages}

\* _cmn.py:30-43: Error.__init__(self, msg, *, rc=None,
\* suggested_steps=None) takes one positional argument besides self; a
\* call with more raises TypeError instead of building the exception.
Error(cls, positional) ==
    IF Len(positional) = 1
    THEN [type |-> "Error", class |-> cls, msg |-> positional[1]]
    ELSE [type |-> "TypeError", class |-> "TypeError",
          msg |-> "Error.__init__() takes 2 positional arguments"]

\* Lines 174-181: super().__init__(_cmn.RC.SCRAPE_HTML_ERROR, msg).
_ScrapeHtmlError(attribute_not_found) ==
    Error("_ScrapeHtmlError", <<RC.SCRAPE_HTML_ERROR, attribute_not_found>>)

Raised(exc) == [kind |-> "raise", exc |-> exc]

\* Lines 235-287. A field that is None holds "None".
get_id(d) == (d - _FIRST_DATE) + 1

get_keys ==
    <<"id", "date", "ang", "raag", "writer", "gurmukhi", "first_line",
      "first_letter", "needs_verification">>

remove_data(m) ==
    [id |-> m.id, date |-> m.date, ang |-> "None", raag |-> "None",
     writer |-> "None", gurmukhi |-> "None", first_line |-> "None",
     first_letter |-> "None", needs_verification |-> TRUE]

\* to_dict: the keys in the order the dict gets them (lines 268-286); of
\* the values the model keeps those the program reads back.
to_dict(m) ==
    [keys |-> <<"id", "date", "needs_verification">>
              \o (IF m.ang # "None" THEN <<"ang">> ELSE <<>>)
              \o (IF m.writer # "None" THEN <<"writer">> ELSE <<>>)
              \o (IF m.raag # "None" THEN <<"raag">> ELSE <<>>)
              \o (IF m.gurmukhi # "None" THEN <<"gurmukhi">> ELSE <<>>)
              \o (IF m.first_line # "None" THEN <<"first_line">> ELSE <<>>)
              \o (IF m.first_letter # "None" THEN <<"first_letter">>
                  ELSE <<>>),
     id |-> m.id, date |-> m.date,
     needs_verification |-> m.needs_verification,
     gurmukhi |-> m.gurmukhi]

\* Lines 716-763. The first attribute the page lacks raises
\* _ScrapeHtmlError in its getter (lines 405-416, 492-503, 559-570); the
\* except clause of line 739 catches that class only.
_scrape(html, d) ==
    LET missing == IF ~html.ang THEN "ang"
                   ELSE IF ~html.raag THEN "raag"
                   ELSE IF ~html.writer THEN "writer"
                   ELSE "None"
    IN  IF missing = "None"
        THEN Returned([id |-> get_id(d), date |-> d, ang |-> "ang",
                       raag |-> "raag", writer |-> "writer",
                       gurmukhi |-> html.shabad, first_line |-> html.shabad,
                       first_letter |-> html.shabad,
                       needs_verification |-> FALSE])
        ELSE IF _ScrapeHtmlError(missing).class = "_ScrapeHtmlError"
        THEN Returned(None)
        ELSE Raised(_ScrapeHtmlError(missing))

\* Lines 419-435 and 465-475, over the files of the directory.
_get_entry_dates(files) ==
    UNION {{files[m][j].date : j \in DOMAIN files[m]} : m \in Months}

Max(S) == CHOOSE x \in S : \A y \in S : y <= x

_get_most_recent_entry_date(files) ==
    IF _get_entry_dates(files) # {} THEN Max(_get_entry_dates(files))
    ELSE NoDate

\* Lines 710-713.
_reset_database(files) == [m \in Months |-> <<>>]

\* A range that, in an update, starts on the most recent date itself.
StartAtMostRecent(mode, files) ==
    IF mode = DataUpdate.WRITE
    THEN [start |-> _FIRST_DATE, files |-> _reset_database(files)]
    ELSE IF mode = DataUpdate.UPDATE
            /\ _get_most_recent_entry_date(files) # NoDate
    THEN [start |-> _get_most_recent_entry_date(files), files |-> files]
    ELSE [start |-> _FIRST_DATE, files |-> files]

\* Lines 518-541: the start of the range and the files the call leaves.
\* The range ends today.
_get_start_and_end_dates(mode, files) ==
    IF mode = DataUpdate.WRITE
    THEN [start |-> _FIRST_DATE, files |-> _reset_database(files)]
    ELSE IF mode = DataUpdate.UPDATE
            /\ _get_most_recent_entry_date(files) # NoDate
    THEN [start |-> _get_most_recent_entry_date(files) + 1, files |-> files]
    ELSE [start |-> _FIRST_DATE, files |-> files]

Remove(data, j) == SubSeq(data, 1, j - 1) \o SubSeq(data, j + 1, Len(data))

\* Lines 817-842: the look at the month's data before the store. The
\* entries the program writes all have a date.
Examine(mode, recent, d, data) ==
    LET fill == /\ mode = DataUpdate.UPDATE_FILL_GAPS
                /\ recent # NoDate
                /\ d < recent
        has == \E j \in DOMAIN data : data[j].date = d
        first == CHOOSE j \in DOMAIN data :
                     /\ data[j].date = d
                     /\ \A k \in 1..(j - 1) : data[k].date # d
    IN  IF ~fill \/ ~has THEN [skip |-> FALSE, data |-> data]
        ELSE IF data[first].keys = get_keys
                /\ ~data[first].needs_verification
        THEN [skip |-> TRUE, data |-> data]
        ELSE [skip |-> FALSE, data |-> Remove(data, first)]

AssertionError == [type |-> "AssertionError", class |-> "AssertionError",
                   msg |-> "today_hukam is not None"]

\* Lines 545-556, with the cache of functools: the pages the call loads,
\* and the shabad or the exception that comes out.
_get_today_hukam(cache, site, now) ==
    IF cache # None THEN [loads |-> <<>>, result |-> Returned(cache)]
    ELSE [loads |-> <<now>>,
          result |-> IF _scrape(site[now], now).kind = "raise"
                     THEN _scrape(site[now], now)
                     ELSE IF _scrape(site[now], now).value = None
                     THEN Raised(AssertionError)
                     ELSE _scrape(site[now], now)]

\* Lines 766-785: the pages loaded, the exception if one is raised, the
\* data of the month afterwards, whether the file is written, and the
\* cache.
_store_hukamnama(d, data, cache, site, now) ==
    LET shabad == _scrape(site[d], d)
        hukam == _get_today_hukam(cache, site, now)
    IN  IF shabad.kind = "raise"
        THEN [loads |-> <<d>>, kind |-> "raise", exc |-> shabad.exc,
              data |-> data, written |-> FALSE, cache |-> cache]
        ELSE IF shabad.value = None
        THEN [loads |-> <<d>>, kind |-> "return", exc |-> None,
              data |-> data, written |-> FALSE, cache |-> cache]
        ELSE IF hukam.result.kind = "raise"
        THEN [loads |-> <<d>> \o hukam.loads, kind |-> "raise",
              exc |-> hukam.result.exc,
              data |-> data, written |-> FALSE, cache |-> cache]
        ELSE [loads |-> <<d>> \o hukam.loads, kind |-> "return",
              exc |-> None,
              data |-> Append(data,
                  to_dict(IF shabad.value.gurmukhi
                              = hukam.result.value.gurmukhi
                          THEN remove_data(shabad.value)
                          ELSE shabad.value)),
              written |-> TRUE, cache |-> hukam.result.value]

\* One pass through the body of the loop of lines 806-845 at the current
\* date.
Body ==
    LET look == Examine(update, most_recent, date,
                        database.files[_database_file_name(date)])
    IN  IF look.skip
        THEN [loads |-> <<>>, kind |-> "return", exc |-> None,
              data |-> look.data, written |-> FALSE, cache |-> today_hukam]
        ELSE _store_hukamnama(date, look.data, today_hukam, web, today)

InLoop == hpc = "loop" /\ date <= today

FileNotFoundError == [type |-> "FileNotFoundError",
                      class |-> "FileNotFoundError",
                      msg |-> "./artifacts/hukamnama/"]

AttributeError == [type |-> "AttributeError", class |-> "AttributeError",
                   msg |-> "'NoneType' object has no attribute 'value'"]

URLError == [type |-> "URLError", class |-> "URLError", msg |-> "urlopen"]

EngineIdle == UNCHANGED <<unicode, i, romanised, buf, adhak, pc, outcome,
                          memo, frames, ctx, ardaas, calls, cpc>>

InitHukam ==
    /\ Entry(<<>>, NoLocals)
    /\ pc = "none"
    /\ outcome = NoOutcome
    /\ memo = {}
    /\ frames = <<>>
    /\ ctx = <<>>
    /\ ardaas = <<>>
    /\ stdout = <<>>
    /\ stderr = <<>>
    /\ calls = <<>>
    /\ cpc = "none"
    /\ rc = RC.SUCCESS
    /\ exception = None
    /\ database \in {[exists |-> e, files |-> [m \in Months |-> <<>>]] :
                        e \in BOOLEAN}
    /\ web \in [Dates -> Pages]
    /\ today = _FIRST_DATE
    /\ update = DataUpdate.UNKNOWN
    /\ hpc = "idle"
    /\ date = NoDate
    /\ most_recent = NoDate
    /\ processed = <<>>
    /\ fetched = <<>>
    /\ today_hukam = None
    /\ runs = 0

\* A new process: main.py:185-254, _data, and _update_database up to
\* its loop (lines 803-804).
StartRun(mode) ==
    /\ hpc # "loop"
    /\ runs < MaxRuns
    /\ database.exists
    /\ runs' = runs + 1
    /\ update' = mode
    /\ database' = [database EXCEPT
           !.files = _get_start_and_end_dates(mode, database.files).files]
    /\ date' = _get_start_and_end_dates(mode, database.files).start
    /\ most_recent' = _get_most_recent_entry_date(database'.files)
    /\ processed' = <<>>
    /\ fetched' = <<>>
    /\ today_hukam' = None
    /\ stdout' = <<>>
    /\ stderr' = <<>>
    /\ rc' = RC.SUCCESS
    /\ exception' = None
    /\ hpc' = "loop"
    /\ UNCHANGED <<web, today>>
    /\ EngineIdle

\* The same without the directory of the database: os.listdir raises
\* (line 712 in a WRITE run, line 425 in the others), and main.py:261-266
\* handles the exception and exits.
NoDirectory(mode) ==
    /\ hpc # "loop"
    /\ runs < MaxRuns
    /\ ~database.exists
    /\ runs' = runs + 1
    /\ update' = mode
    /\ date' = NoDate
    /\ most_recent' = NoDate
    /\ processed' = <<>>
    /\ fetched' = <<>>
    /\ today_hukam' = None
    /\ stdout' = <<>>
    /\ rc' = Handle(FileNotFoundError, RC.SUCCESS, None).rc
    /\ exception' = Handle(FileNotFoundError, RC.SUCCESS, None).exception
    /\ stderr' = <<exception'>>
    /\ hpc' = "aborted"
    /\ UNCHANGED <<database, web, today>>
    /\ EngineIdle

\* One date of the loop, to the end of its body.
ProcessDate ==
    /\ InLoop
    /\ Body.kind = "return"
    /\ database' = IF Body.written
                   THEN [database EXCEPT
                            !.files[_database_file_name(date)] = Body.data]
                   ELSE database
    /\ fetched' = fetched \o Body.loads
    /\ today_hukam' = Body.cache
    /\ processed' = Append(processed, date)
    /\ date' = date + 1
    /\ UNCHANGED <<web, today, update, hpc, most_recent, runs>>
    /\ UNCHANGED <<stdout, stderr, rc, exception>>
    /\ EngineIdle

\* An exception leaves the body of the loop; nothing below main catches
\* it (parse catches URLError only, lines 642-643), and main.py:261-266
\* handles it and exits.
Abort ==
    /\ InLoop
    /\ Body.kind = "raise"
    /\ fetched' = fetched \o Body.loads
    /\ processed' = Append(processed, date)
    /\ rc' = Handle(Body.exc, rc, exception).rc
    /\ exception' = Handle(Body.exc, rc, exception).exception
    /\ stderr' = Append(stderr, exception')
    /\ hpc' = "aborted"
    /\ UNCHANGED <<database, web, today, update, date, most_recent,
                   today_hukam, runs, stdout>>
    /\ EngineIdle

\* A load of a page fails (lines 619-628): parse prints the URLError and
\* returns None (lines 642-643), and _exit(None, None) of main.py:266
\* raises AttributeError at rc.value.
LoadFails ==
    /\ InLoop
    /\ \E n \in 1..Len(Body.loads) :
           fetched' = fetched \o SubSeq(Body.loads, 1, n)
    /\ processed' = Append(processed, date)
    /\ stdout' = Append(stdout, URLError)
    /\ rc' = "None"
    /\ stderr' = Append(stderr, AttributeError)
    /\ hpc' = "stopped"
    /\ UNCHANGED <<database, web, today, update, date, most_recent,
                   today_hukam, runs, exception>>
    /\ EngineIdle

\* The range is exhausted: parse returns None to main.py:253, and
\* _exit(None, None) raises AttributeError at rc.value.
EndRun ==
    /\ hpc = "loop"
    /\ date > today
    /\ rc' = "None"
    /\ stderr' = Append(stderr, AttributeError)
    /\ hpc' = "done"
    /\ UNCHANGED <<database, web, today, update, date, most_recent,
                   processed, fetched, today_hukam, runs, stdout, exception>>
    /\ EngineIdle

\* Midnight passes between two runs.
NewDay ==
    /\ hpc # "loop"
    /\ today < MaxDay
    /\ today' = today + 1
    /\ UNCHANGED <<database, web, update, hpc, date, most_recent, processed,
                   fetched, today_hukam, runs>>
    /\ UNCHANGED <<stdout, stderr, rc, exception>>
    /\ EngineIdle

NextHukam ==
    \/ \E mode \in UpdateMethods : StartRun(mode)
    \/ \E mode \in UpdateMethods : NoDirectory(mode)
    \/ ProcessDate
    \/ Abort
    \/ LoadFails
    \/ EndRun
    \/ NewDay

SpecHukam == InitHukam /\ [][NextHukam]_vars

---------------------------------------------------------------------------
(* C25 .. C28 *)

\* The month's file of the current date, as the loop body reads it.
Data == database.files[_database_file_name(date)]

\* All the metadata fields, in any order.
HoldsEveryField(entry) ==
    {entry.keys[j] : j \in DOMAIN entry.keys}
        = {get_keys[j] : j \in DOMAIN get_keys}

\* C25. In an UPDATE_FILL_GAPS run, a date before the most recent
\* recorded date whose entry holds every metadata field with
\* needs_verification false is skipped: its page is not loaded and the
\* database is left as it is.
C25_FillGapsKeeps ==
    [][(/\ InLoop
        /\ update = DataUpdate.UPDATE_FILL_GAPS
        /\ most_recent # NoDate
        /\ date < most_recent
        /\ \E j \in DOMAIN Data : Data[j].date = date
        /\ \A j \in DOMAIN Data :
               Data[j].date = date =>
                   /\ HoldsEveryField(Data[j])
                   /\ ~Data[j].needs_verification)
       => fetched' = fetched /\ database' = database]_vars

\* The dates from a to b in increasing order.
Range(a, b) == [k \in 1..(b - a + 1) |-> a + k - 1]

\* The first date of the range of the current run, by its mode.
RangeStart ==
    IF update = DataUpdate.UPDATE /\ most_recent # NoDate
    THEN most_recent + 1
    ELSE _FIRST_DATE

\* C26. The dates a run processes are the days from RangeStart on, in
\* increasing order, and all of them up to today when the loop ends; an
\* UPDATE run on a non-empty database loads no page dated on or before
\* the most recent date, changes no entry of the database (it adds
\* entries of later dates at the end of their files), and processes no
\* date when the most recent date is today.
C26_UpdateRange ==
    /\ [](hpc \in {"loop", "done"} =>
            /\ date = RangeStart + Len(processed)
            /\ processed = Range(RangeStart, date - 1)
            /\ (hpc = "loop" => date <= today + 1)
            /\ (update = DataUpdate.UPDATE /\ most_recent # NoDate =>
                   \A k \in DOMAIN fetched : fetched[k] > most_recent))
    /\ [][/\ (hpc = "loop" /\ hpc' = "done" =>
                 processed' = Range(RangeStart, today))
          /\ (hpc = "loop" /\ update = DataUpdate.UPDATE =>
                 \A m \in Months :
                     /\ Len(database'.files[m]) >= Len(database.files[m])
                     /\ SubSeq(database'.files[m], 1,
                               Len(database.files[m])) = database.files[m]
                     /\ \A j \in DOMAIN database'.files[m] :
                            j > Len(database.files[m]) =>
                                database'.files[m][j].date > most_recent)
         ]_vars

C26_Witness ==
    /\ update = DataUpdate.UPDATE
    /\ hpc = "done"
    /\ most_recent = 1
    /\ today = 3
    /\ processed = <<2, 3>>
    /\ fetched # <<>>

\* C27. When the page of the current date lacks the ang, the raag or the
\* writer, the store leaves the database as it is and the run does not
\* abort.
C27_ScrapeFailureSkipped ==
    [][(/\ InLoop
        /\ ~Examine(update, most_recent, date, Data).skip
        /\ (~web[date].ang \/ ~web[date].raag \/ ~web[date].writer))
       => hpc' # "aborted" /\ database' = database]_vars

\* C28. Every monthly file holds at most one entry for each date.
C28_OneEntryPerDate ==
    \A m \in Months :
        \A j, k \in DOMAIN database.files[m] :
            database.files[m][j].date = database.files[m][k].date => j = k

=============================================================================
